---- MODULE Spec2Model ----
(***************************************************************************)
(* A model of streamlit_app.py: the geometry transforms between display,   *)
(* full-resolution-pixel and PDF-point space, the greedy word wrap and its *)
(* truncation, the stamp sizing of the preview, the document mutation loop *)
(* and the Streamlit session (one action per script run).                  *)
(*                                                                         *)
(* Python floats are modelled as exact rationals [n, d] in lowest terms,   *)
(* so "equal within floating-point tolerance" is equality of rationals.    *)
(***************************************************************************)
EXTENDS Integers, Sequences, FiniteSets, TLC

VARIABLES
    \* ---- geometry transform harness
    g_pc,         \* "idle" | "pt" | "px" | "disp" | "drawn" | "done_rt" | "done"
    g_geo,        \* [img_w, img_h, page_w, page_h, display_scale]
    g_rect_pt,    \* the PDF-point rectangle the round trip starts from
    g_rect_px,    \* its full-resolution-pixel image
    g_rect_disp,  \* the display-space rectangle handed to rect_disp_to_rect_pt
    g_out,        \* the rectangle rect_disp_to_rect_pt returned
    \* ---- text layout harness (wrap_text, and the text overlay of the preview)
    w_pc,         \* "idle" | "call" | "start" | "wrapped" | "drawn"
    w_text,       \* the message: a sequence of characters
    w_max_width,  \* the max_width wrap_text is called with
    w_box,        \* [w, h]: x1 - x0 and y1 - y0 of the text rectangle in pixels
    w_lines,      \* what wrap_text returned
    w_drawn,      \* the lines build_preview_image draws
    \* ---- stamp sizing harness (the stamp overlay of the preview)
    s_pc,         \* "idle" | "start" | "done"
    s_in,         \* [sw, sh, x0, y0, x1, y1, keep_ratio]
    s_out,        \* [nw, nh, px, py]: the resized stamp and its paste offset
    \* ---- document mutation harness (apply_edits_to_pdf)
    d_pc,         \* "idle" | "loop" | "done" | "raised"
    d_args,       \* [page_count, rects_by_page, message, stamp_png_bytes]
    d_todo,       \* the keys of rects_by_page the loop has not visited yet
    d_doc,        \* per page of the document, the insertions made on it
    \* ---- the Streamlit session; one action is one run of the script
    ui,           \* what the last run rendered: "off" | "nofile" | "error" | "ok"
    pdf_file,     \* the uploaded document: None | Some(its page count)
    stamp_file,   \* the uploaded stamp: None | Some("image") | Some("undecodable")
    mode,         \* the radio: "texto" | "stamp"
    apply_all,    \* the checkbox "Aplicar a todas as paginas"
    canvas_json,  \* canvas_result.json_data of the canvas of the current page
    page_index,   \* st.session_state.page_index
    rects_by_page,\* st.session_state.rects_by_page
    gen_call      \* the arguments of this run's call of apply_edits_to_pdf, or None

geomVars == <<g_pc, g_geo, g_rect_pt, g_rect_px, g_rect_disp, g_out>>
wrapVars == <<w_pc, w_text, w_max_width, w_box, w_lines, w_drawn>>
stampVars == <<s_pc, s_in, s_out>>
genVars == <<d_pc, d_args, d_todo, d_doc>>
sessVars == <<ui, pdf_file, stamp_file, mode, apply_all, canvas_json, page_index,
              rects_by_page, gen_call>>

vars == <<geomVars, wrapVars, stampVars, genVars, sessVars>>

notGeom == <<wrapVars, stampVars, genVars, sessVars>>
notWrap == <<geomVars, stampVars, genVars, sessVars>>
notStamp == <<geomVars, wrapVars, genVars, sessVars>>
notGen == <<geomVars, wrapVars, stampVars, sessVars>>
notSess == <<geomVars, wrapVars, stampVars, genVars>>

\* Optional[T]: None, or Some(x) for a value x that is not itself a sequence
None == <<>>
Some(x) == <<x>>

\* ------------------------------------------------------------------------
\* Bounds of the model
\* ------------------------------------------------------------------------
MaxCoord == 2     \* rectangle coordinates are drawn from -1 .. MaxCoord
MaxDim == 2       \* image sizes in pixels are drawn from 1 .. MaxDim
MaxTextLen == 5   \* messages have at most MaxTextLen characters
MaxWidth == 13    \* the widest text box: max_width is drawn from 0 .. MaxWidth
MaxRows == 2      \* the tallest text box holds MaxRows lines
GlyphH == 10      \* height of the font's reference glyph pair "Ag" in pixels
MaxStamp == 3     \* the stamp image is at most MaxStamp x MaxStamp pixels
MaxPx == 3        \* stamp rectangle corners are drawn from 0 .. MaxPx
MaxPno == 2       \* keys of the annotation map are drawn from -1 .. MaxPno
MaxDocPages == 2  \* documents handed to apply_edits_to_pdf have 1 .. MaxDocPages pages
MaxPages == 2     \* uploaded documents have 1 .. MaxPages pages
MaxObjects == 2   \* the canvas holds at most MaxObjects drawn objects
PageWpt == 612    \* width of the pages of the uploaded documents, in points
PageHpt == 792    \* height of the pages of the uploaded documents, in points

\* ------------------------------------------------------------------------
\* Rationals (the values of Python floats)
\* ------------------------------------------------------------------------
Abs(x) == IF x < 0 THEN -x ELSE x

RECURSIVE GCD(_, _)
GCD(a, b) == IF b = 0 THEN a ELSE GCD(b, a % b)

\* n/d in lowest terms with a positive denominator (d /= 0)
Q(n, d) ==
    LET g == GCD(Abs(n), Abs(d))
        s == IF d < 0 THEN -1 ELSE 1
    IN  [n |-> (s * n) \div g, d |-> Abs(d) \div g]

QInt(i) == [n |-> i, d |-> 1]
QAdd(a, b) == Q(a.n * b.d + b.n * a.d, a.d * b.d)
QMul(a, b) == Q(a.n * b.n, a.d * b.d)
QDiv(a, b) == Q(a.n * b.d, a.d * b.n)
QLeq(a, b) == a.n * b.d <= b.n * a.d
QLt(a, b) == a.n * b.d < b.n * a.d
QMin(a, b) == IF QLeq(a, b) THEN a ELSE b
QMax(a, b) == IF QLeq(b, a) THEN a ELSE b
\* int(x): truncation towards zero
QTrunc(a) == IF a.n >= 0 THEN a.n \div a.d ELSE -((-a.n) \div a.d)

QZero == QInt(0)

\* sorted([a, b])
Sorted2(a, b) == <<QMin(a, b), QMax(a, b)>>

\* ------------------------------------------------------------------------
\* Geometry Transform
\* ------------------------------------------------------------------------
\* the transform with the sort of the corner pairs left out
rect_disp_to_rect_pt_nosort(rect_disp, display_scale, img_w_px, img_h_px, page_w_pt, page_h_pt) ==
    LET x0 == QMax(QZero, QMin(QInt(img_w_px), QDiv(rect_disp[1], display_scale)))
        x1 == QMax(QZero, QMin(QInt(img_w_px), QDiv(rect_disp[3], display_scale)))
        y0 == QMax(QZero, QMin(QInt(img_h_px), QDiv(rect_disp[2], display_scale)))
        y1 == QMax(QZero, QMin(QInt(img_h_px), QDiv(rect_disp[4], display_scale)))
        sx == QDiv(page_w_pt, QInt(img_w_px))
        sy == QDiv(page_h_pt, QInt(img_h_px))
    IN  <<QMul(x0, sx), QMul(y0, sy), QMul(x1, sx), QMul(y1, sy)>>

\* the transform with the clamp to the image left out
rect_disp_to_rect_pt_noclamp(rect_disp, display_scale, img_w_px, img_h_px, page_w_pt, page_h_pt) ==
    LET xs == Sorted2(rect_disp[1], rect_disp[3])
        ys == Sorted2(rect_disp[2], rect_disp[4])
        sx == QDiv(page_w_pt, QInt(img_w_px))
        sy == QDiv(page_h_pt, QInt(img_h_px))
    IN  <<QMul(QDiv(xs[1], display_scale), sx), QMul(QDiv(ys[1], display_scale), sy),
          QMul(QDiv(xs[2], display_scale), sx), QMul(QDiv(ys[2], display_scale), sy)>>

rect_disp_to_rect_pt(rect_disp, display_scale, img_w_px, img_h_px, page_w_pt, page_h_pt) ==
    LET xs == Sorted2(rect_disp[1], rect_disp[3])
        ys == Sorted2(rect_disp[2], rect_disp[4])
        x0d == xs[1]
        x1d == xs[2]
        y0d == ys[1]
        y1d == ys[2]
        x0 == QMax(QZero, QMin(QInt(img_w_px), QDiv(x0d, display_scale)))
        x1 == QMax(QZero, QMin(QInt(img_w_px), QDiv(x1d, display_scale)))
        y0 == QMax(QZero, QMin(QInt(img_h_px), QDiv(y0d, display_scale)))
        y1 == QMax(QZero, QMin(QInt(img_h_px), QDiv(y1d, display_scale)))
        sx == QDiv(page_w_pt, QInt(img_w_px))
        sy == QDiv(page_h_pt, QInt(img_h_px))
    IN  <<QMul(x0, sx), QMul(y0, sy), QMul(x1, sx), QMul(y1, sy)>>

\* the inverse scaling with the two factors the wrong way up
rect_pt_to_rect_px_inverted(rect_pt, img_w_px, img_h_px, page_w_pt, page_h_pt) ==
    LET sx == QDiv(page_w_pt, QInt(img_w_px))
        sy == QDiv(page_h_pt, QInt(img_h_px))
    IN  <<QMul(rect_pt[1], sx), QMul(rect_pt[2], sy), QMul(rect_pt[3], sx), QMul(rect_pt[4], sy)>>

rect_pt_to_rect_px(rect_pt, img_w_px, img_h_px, page_w_pt, page_h_pt) ==
    LET sx == QDiv(QInt(img_w_px), page_w_pt)
        sy == QDiv(QInt(img_h_px), page_h_pt)
    IN  <<QMul(rect_pt[1], sx), QMul(rect_pt[2], sy), QMul(rect_pt[3], sx), QMul(rect_pt[4], sy)>>

\* ---- the inputs of the harness
Coords == {QInt(i) : i \in -1 .. MaxCoord} \cup {Q(1, 2)}
Rects == {<<a, b, c, d>> : a \in Coords, b \in Coords, c \in Coords, d \in Coords}
PageDims == {QInt(1), Q(3, 2)}
DisplayScales == {Q(1, 2), QInt(1), Q(3, 2)}
Geometries ==
    [img_w : 1 .. MaxDim, img_h : 1 .. MaxDim, page_w : PageDims, page_h : PageDims,
     display_scale : DisplayScales]

GeomIdle ==
    /\ g_pc = "idle"
    /\ g_geo = None
    /\ g_rect_pt = None
    /\ g_rect_px = None
    /\ g_rect_disp = None
    /\ g_out = None

\* a rectangle in PDF points to round-trip, or a rectangle drawn on the canvas
InitGeom ==
    /\ g_geo \in Geometries
    /\ g_rect_px = None
    /\ g_out = None
    /\ \/ g_pc = "pt" /\ g_rect_pt \in Rects /\ g_rect_disp = None
       \/ g_pc = "drawn" /\ g_rect_pt = None /\ g_rect_disp \in Rects

PointToPixel ==
    /\ g_pc = "pt"
    /\ g_rect_px' = rect_pt_to_rect_px(g_rect_pt, g_geo.img_w, g_geo.img_h,
                                       g_geo.page_w, g_geo.page_h)
    /\ g_pc' = "px"
    /\ UNCHANGED <<g_geo, g_rect_pt, g_rect_disp, g_out, notGeom>>

\* every coordinate multiplied by display_scale: what the canvas shows
PixelToDisplay ==
    /\ g_pc = "px"
    /\ g_rect_disp' = [i \in 1 .. 4 |-> QMul(g_rect_px[i], g_geo.display_scale)]
    /\ g_pc' = "disp"
    /\ UNCHANGED <<g_geo, g_rect_pt, g_rect_px, g_out, notGeom>>

DisplayToPoint ==
    /\ g_pc \in {"disp", "drawn"}
    /\ g_out' = rect_disp_to_rect_pt(g_rect_disp, g_geo.display_scale, g_geo.img_w,
                                     g_geo.img_h, g_geo.page_w, g_geo.page_h)
    /\ g_pc' = IF g_pc = "disp" THEN "done_rt" ELSE "done"
    /\ UNCHANGED <<g_geo, g_rect_pt, g_rect_px, g_rect_disp, notGeom>>

NextGeom == PointToPixel \/ PixelToDisplay \/ DisplayToPoint

\* ------------------------------------------------------------------------
\* Text Layout Engine
\* ------------------------------------------------------------------------
LF == "\n"
CR == "\r"
SP == " "
Ellipsis == "U+2026"          \* the one character of the truncation marker
Chars == {"a", "W", SP, LF, CR}
Whitespace == {SP, LF, CR}

\* draw.textlength: the font's advance widths, summed
CharWidth(c) ==
    CASE c = "a" -> 4
      [] c = "W" -> 7
      [] c = SP -> 3
      [] OTHER -> 0

RECURSIVE textlength(_)
textlength(s) == IF s = <<>> THEN 0 ELSE CharWidth(Head(s)) + textlength(Tail(s))

\* str.replace("\r\n", "\n")
RECURSIVE ReplaceCRLF(_)
ReplaceCRLF(s) ==
    IF s = <<>> THEN <<>>
    ELSE IF Len(s) >= 2 /\ s[1] = CR /\ s[2] = LF
         THEN <<LF>> \o ReplaceCRLF(SubSeq(s, 3, Len(s)))
         ELSE <<Head(s)>> \o ReplaceCRLF(Tail(s))

\* str.split(sep) for a one-character separator
RECURSIVE SplitAcc(_, _, _)
SplitAcc(s, sep, cur) ==
    IF s = <<>> THEN <<cur>>
    ELSE IF Head(s) = sep
         THEN <<cur>> \o SplitAcc(Tail(s), sep, <<>>)
         ELSE SplitAcc(Tail(s), sep, Append(cur, Head(s)))

Split(s, sep) == SplitAcc(s, sep, <<>>)

RECURSIVE lstrip(_)
lstrip(s) == IF s /= <<>> /\ Head(s) \in Whitespace THEN lstrip(Tail(s)) ELSE s

RECURSIVE rstrip(_)
rstrip(s) ==
    IF s /= <<>> /\ s[Len(s)] \in Whitespace THEN rstrip(SubSeq(s, 1, Len(s) - 1)) ELSE s

strip(s) == lstrip(rstrip(s))

\* the inner loop over the words of one paragraph; returns the lines so far
RECURSIVE WrapWords(_, _, _, _)
WrapWords(words, cur, lines, max_width) ==
    IF words = <<>>
    THEN IF cur /= <<>> THEN Append(lines, cur) ELSE lines
    ELSE LET w == Head(words)
             trial == IF cur = <<>> THEN w ELSE cur \o <<SP>> \o w
         IN  IF textlength(trial) <= max_width
             THEN WrapWords(Tail(words), trial, lines, max_width)
             ELSE WrapWords(Tail(words), w,
                            IF cur /= <<>> THEN Append(lines, cur) ELSE lines, max_width)

\* the outer loop over the paragraphs
RECURSIVE WrapParagraphs(_, _, _)
WrapParagraphs(paragraphs, lines, max_width) ==
    IF paragraphs = <<>> THEN lines
    ELSE LET paragraph == Head(paragraphs)
         IN  IF strip(paragraph) = <<>>
             THEN WrapParagraphs(Tail(paragraphs), Append(lines, <<>>), max_width)
             ELSE WrapParagraphs(Tail(paragraphs),
                                 WrapWords(Split(paragraph, SP), <<>>, lines, max_width),
                                 max_width)

\* a wrap that appends the word to the current line without measuring the result
RECURSIVE WrapWordsNoMeasure(_, _, _, _)
WrapWordsNoMeasure(words, cur, lines, max_width) ==
    IF words = <<>>
    THEN IF cur /= <<>> THEN Append(lines, cur) ELSE lines
    ELSE LET w == Head(words)
             trial == IF cur = <<>> THEN w ELSE cur \o <<SP>> \o w
         IN  IF textlength(cur) <= max_width
             THEN WrapWordsNoMeasure(Tail(words), trial, lines, max_width)
             ELSE WrapWordsNoMeasure(Tail(words), w,
                                     IF cur /= <<>> THEN Append(lines, cur) ELSE lines,
                                     max_width)

RECURSIVE WrapParagraphsNoMeasure(_, _, _)
WrapParagraphsNoMeasure(paragraphs, lines, max_width) ==
    IF paragraphs = <<>> THEN lines
    ELSE LET paragraph == Head(paragraphs)
         IN  IF strip(paragraph) = <<>>
             THEN WrapParagraphsNoMeasure(Tail(paragraphs), Append(lines, <<>>), max_width)
             ELSE WrapParagraphsNoMeasure(Tail(paragraphs),
                      WrapWordsNoMeasure(Split(paragraph, SP), <<>>, lines, max_width),
                      max_width)

wrap_text_nomeasure(text, max_width) ==
    WrapParagraphsNoMeasure(Split(ReplaceCRLF(text), LF), <<>>, max_width)

wrap_text(text, max_width) ==
    WrapParagraphs(Split(ReplaceCRLF(text), LF), <<>>, max_width)

\* ---- the text overlay of build_preview_image
pad == 10
MinTextWidth == 10
LineGap == 4

TextMaxW(box_w) == IF box_w - 2 * pad > MinTextWidth THEN box_w - 2 * pad ELSE MinTextWidth

line_h == GlyphH + LineGap

TextMaxLines(box_h) ==
    LET q == (box_h - 2 * pad) \div line_h IN IF q > 1 THEN q ELSE 1

\* a truncation that keeps one line too many
TruncateLinesOneMore(lines, max_lines) ==
    IF Len(lines) > max_lines
    THEN LET kept == SubSeq(lines, 1, max_lines + 1)
         IN  [kept EXCEPT ![Len(kept)] = rstrip(kept[Len(kept)]) \o <<SP, Ellipsis>>]
    ELSE lines

TruncateLines(lines, max_lines) ==
    IF Len(lines) > max_lines
    THEN LET kept == SubSeq(lines, 1, max_lines)
         IN  [kept EXCEPT ![max_lines] = rstrip(kept[max_lines]) \o <<SP, Ellipsis>>]
    ELSE lines

\* ---- the inputs of the harness
RECURSIVE SeqsUpTo(_, _)
SeqsUpTo(S, n) ==
    IF n = 0 THEN {<<>>}
    ELSE LET shorter == SeqsUpTo(S, n - 1)
         IN  shorter \cup {Append(s, c) : s \in shorter, c \in S}

Texts == SeqsUpTo(Chars, MaxTextLen)
BoxWidths == {0} \cup {2 * pad + w : w \in MinTextWidth .. MaxWidth}
BoxHeights ==
    {0} \cup {2 * pad + k * line_h - 1 : k \in 1 .. MaxRows}
        \cup {2 * pad + k * line_h : k \in 1 .. MaxRows}

WrapIdle ==
    /\ w_pc = "idle"
    /\ w_text = None
    /\ w_max_width = 0
    /\ w_box = None
    /\ w_lines = None
    /\ w_drawn = None

\* a call of wrap_text with any width, or a call of build_preview_image with a
\* text rectangle
InitWrap ==
    /\ w_text \in Texts
    /\ w_lines = None
    /\ w_drawn = None
    /\ \/ w_pc = "call" /\ w_max_width \in 0 .. MaxWidth /\ w_box = None
       \/ w_pc = "start" /\ w_max_width = 0 /\ w_box \in [w : BoxWidths, h : BoxHeights]

\* wrap_text called on its own
WrapText ==
    /\ w_pc = "call"
    /\ w_lines' = wrap_text(w_text, w_max_width)
    /\ w_pc' = "wrapped"
    /\ UNCHANGED <<w_text, w_max_width, w_box, w_drawn, notWrap>>

\* build_preview_image with a text rectangle and a message that is not blank
PreviewText ==
    /\ w_pc = "start"
    /\ strip(w_text) /= <<>>
    /\ w_max_width' = TextMaxW(w_box.w)
    /\ w_lines' = wrap_text(w_text, w_max_width')
    /\ w_drawn' = TruncateLines(w_lines', TextMaxLines(w_box.h))
    /\ w_pc' = "drawn"
    /\ UNCHANGED <<w_text, w_box, notWrap>>

\* build_preview_image with a blank message: no text overlay
PreviewNoText ==
    /\ w_pc = "start"
    /\ strip(w_text) = <<>>
    /\ w_drawn' = <<>>
    /\ w_pc' = "drawn"
    /\ UNCHANGED <<w_text, w_max_width, w_box, w_lines, notWrap>>

NextWrap == WrapText \/ PreviewText \/ PreviewNoText

\* ------------------------------------------------------------------------
\* Overlay Compositor: the stamp
\* ------------------------------------------------------------------------
Max2(a, b) == IF a >= b THEN a ELSE b

\* the sizing with the larger of the two scale factors
StampSizeMaxScale(sw, sh, x0, y0, x1, y1, keep_ratio) ==
    LET target_w == Max2(1, x1 - x0)
        target_h == Max2(1, y1 - y0)
        scale == QMax(Q(target_w, sw), Q(target_h, sh))
        nw == Max2(1, QTrunc(QMul(QInt(sw), scale)))
        nh == Max2(1, QTrunc(QMul(QInt(sh), scale)))
    IN  IF keep_ratio
        THEN [nw |-> nw, nh |-> nh,
              px |-> x0 + (target_w - nw) \div 2, py |-> y0 + (target_h - nh) \div 2]
        ELSE [nw |-> target_w, nh |-> target_h, px |-> x0, py |-> y0]

StampSize(sw, sh, x0, y0, x1, y1, keep_ratio) ==
    LET target_w == Max2(1, x1 - x0)
        target_h == Max2(1, y1 - y0)
        scale == QMin(Q(target_w, sw), Q(target_h, sh))
        nw == Max2(1, QTrunc(QMul(QInt(sw), scale)))
        nh == Max2(1, QTrunc(QMul(QInt(sh), scale)))
    IN  IF keep_ratio
        THEN [nw |-> nw, nh |-> nh,
              px |-> x0 + (target_w - nw) \div 2, py |-> y0 + (target_h - nh) \div 2]
        ELSE [nw |-> target_w, nh |-> target_h, px |-> x0, py |-> y0]

StampIdle ==
    /\ s_pc = "idle"
    /\ s_in = None
    /\ s_out = None

InitStamp ==
    /\ s_pc = "start"
    /\ s_in \in {r \in [sw : 1 .. MaxStamp, sh : 1 .. MaxStamp,
                        x0 : 0 .. MaxPx, y0 : 0 .. MaxPx, x1 : 0 .. MaxPx, y1 : 0 .. MaxPx,
                        keep_ratio : BOOLEAN] : r.x0 <= r.x1 /\ r.y0 <= r.y1}
    /\ s_out = None

\* build_preview_image with a stamp rectangle and a decoded stamp
PreviewStamp ==
    /\ s_pc = "start"
    /\ s_out' = StampSize(s_in.sw, s_in.sh, s_in.x0, s_in.y0, s_in.x1, s_in.y1,
                          s_in.keep_ratio)
    /\ s_pc' = "done"
    /\ UNCHANGED <<s_in, notStamp>>

NextStamp == PreviewStamp

\* ------------------------------------------------------------------------
\* Document Mutator
\* ------------------------------------------------------------------------
Kinds == {"texto", "stamp"}

EmptyMap == [k \in {} |-> None]
\* an assignment of a fresh dict instead of an update of the one there
MapSetFresh(m, k, v) == [x \in {k} |-> v]

MapSet(m, k, v) == [x \in (DOMAIN m) \cup {k} |-> IF x = k THEN v ELSE m[x]]
MapPop(m, k) == [x \in (DOMAIN m) \ {k} |-> m[x]]
MapGet(m, k, default) == IF k \in DOMAIN m THEN m[k] ELSE default

\* the truth value of an Optional[bytes]
BytesTruthy(b) == b /= None /\ b[1] /= <<>>

\* what the body of the loop inserts on page pno, in order
PageEdits(d, message, stamp_png_bytes) ==
    (IF "texto" \in DOMAIN d /\ strip(message) /= <<>>
     THEN <<[op |-> "insert_textbox", rect |-> d["texto"]]>> ELSE <<>>)
    \o
    (IF "stamp" \in DOMAIN d /\ BytesTruthy(stamp_png_bytes)
     THEN <<[op |-> "insert_image", rect |-> d["stamp"]]>> ELSE <<>>)

\* the range check without its upper half
InRangeNoUpper(pno, page_count) == ~(pno < 0)

InRange(pno, page_count) == ~(pno < 0 \/ pno >= page_count)

\* ---- the inputs of the harness
GenRect == <<QInt(0), QInt(0), QInt(1), QInt(1)>>
PageDicts == UNION {[ks -> {GenRect}] : ks \in SUBSET Kinds}
AnnotationMaps == UNION {[ps -> PageDicts] : ps \in SUBSET (-1 .. MaxPno)}
GenMessages == {<<SP>>, <<"a">>}
GenStamps == {None, Some(<<>>), Some(<<"b">>)}

GenIdle ==
    /\ d_pc = "idle"
    /\ d_args = None
    /\ d_todo = {}
    /\ d_doc = None

\* doc = fitz.open(...)
InitGen ==
    /\ d_pc = "loop"
    /\ d_args \in [page_count : 1 .. MaxDocPages, rects_by_page : AnnotationMaps,
                   message : GenMessages, stamp_png_bytes : GenStamps]
    /\ d_todo = DOMAIN d_args.rects_by_page
    /\ d_doc = [p \in 0 .. d_args.page_count - 1 |-> <<>>]

\* one iteration of the loop that hits the continue
GenSkipPage ==
    /\ d_pc = "loop"
    /\ \E pno \in d_todo :
          /\ ~InRange(pno, d_args.page_count)
          /\ d_todo' = d_todo \ {pno}
    /\ UNCHANGED <<d_pc, d_args, d_doc, notGen>>

\* one iteration of the loop on a page of the document
GenEditPage ==
    /\ d_pc = "loop"
    /\ \E pno \in d_todo :
          /\ InRange(pno, d_args.page_count)
          \* page = doc[pno]: a negative index counts from the end, one past the end raises
          /\ d_pc' = IF pno >= d_args.page_count THEN "raised" ELSE "loop"
          /\ d_doc' = IF pno >= d_args.page_count THEN d_doc
                      ELSE LET p == IF pno < 0 THEN pno + d_args.page_count ELSE pno
                           IN  [d_doc EXCEPT ![p] = @ \o PageEdits(d_args.rects_by_page[pno],
                                                      d_args.message, d_args.stamp_png_bytes)]
          /\ d_todo' = d_todo \ {pno}
    /\ UNCHANGED <<d_args, notGen>>

\* out = doc.tobytes(...)
GenFinish ==
    /\ d_pc = "loop"
    /\ d_todo = {}
    /\ d_pc' = "done"
    /\ UNCHANGED <<d_args, d_todo, d_doc, notGen>>

NextGen == GenSkipPage \/ GenEditPage \/ GenFinish

\* ------------------------------------------------------------------------
\* The session: streamlit_app.py run once per user event
\* ------------------------------------------------------------------------
ZOOM_RENDER == 2
MAX_W == 900

\* doc_tmp.page_count
PageCount(pdf) == pdf[1]

\* render_page_cached: the size of the rendered image, and the page size it reports
ImgW == ZOOM_RENDER * PageWpt
ImgH == ZOOM_RENDER * PageHpt

disp_w == IF MAX_W <= ImgW THEN MAX_W ELSE ImgW
display_scale == Q(disp_w, ImgW)
disp_h == QTrunc(QMul(QInt(ImgH), display_scale))

\* what a run of the script gets to render with this document and page index:
\* st.stop() without a document, an exception of doc[page_index] past the last page
RunOutcome(pdf, pidx) ==
    IF pdf = None THEN "nofile"
    ELSE IF pidx >= PageCount(pdf) THEN "error"
    ELSE "ok"

\* the stamp, converted to PNG in memory; the raw bytes when it does not decode
stamp_png_bytes == IF stamp_file = None THEN None ELSE Some(<<"b">>)
stamp_pil == IF stamp_file = Some("image") THEN Some("RGBA") ELSE None

get_last_rect_from_canvas(json) ==
    IF json = None \/ json[1].objects = <<>> THEN None
    ELSE LET rects == SelectSeq(json[1].objects, LAMBDA o : o.type = "rect")
         IN  IF rects = <<>> THEN None
             ELSE LET o == rects[Len(rects)]
                      left == o.left
                      top == o.top
                      w == QMul(o.width, o.scaleX)
                      h == QMul(o.height, o.scaleY)
                  IN  <<left, top, QAdd(left, w), QAdd(top, h)>>

\* what the user can draw: a rectangle dragged right and down, a rectangle with
\* negative extent that leaves the canvas on three sides, a freehand path
DrawnObjects ==
    { [type |-> "rect", left |-> QInt(100), top |-> QInt(100), width |-> QInt(200),
       height |-> QInt(50), scaleX |-> QInt(1), scaleY |-> QInt(1)],
      [type |-> "rect", left |-> QInt(950), top |-> QInt(1200), width |-> QInt(-500),
       height |-> QInt(-100), scaleX |-> QInt(2), scaleY |-> QInt(2)],
      [type |-> "path", left |-> QInt(10), top |-> QInt(10), width |-> QInt(5),
       height |-> QInt(5), scaleX |-> QInt(1), scaleY |-> QInt(1)] }

page_rects == MapGet(rects_by_page, page_index, EmptyMap)
rect_text_pt == MapGet(page_rects, "texto", None)
rect_stamp_pt == MapGet(page_rects, "stamp", None)

\* the annotations a click on "Gerar PDF final" hands to apply_edits_to_pdf
rects_to_apply ==
    IF apply_all THEN rects_by_page ELSE MapSet(EmptyMap, page_index, page_rects)

can_generate ==
    /\ DOMAIN rects_by_page /= {}
    /\ ~(rect_stamp_pt /= None /\ ~BytesTruthy(stamp_png_bytes))

SessIdle ==
    /\ ui = "off"
    /\ pdf_file = None
    /\ stamp_file = None
    /\ mode = "texto"
    /\ apply_all = TRUE
    /\ canvas_json = None
    /\ page_index = 0
    /\ rects_by_page = EmptyMap
    /\ gen_call = None

\* the first run: no file uploaded, the session state just initialised
InitSess ==
    /\ ui = "nofile"
    /\ pdf_file = None
    /\ stamp_file = None
    /\ mode = "texto"
    /\ apply_all = TRUE
    /\ canvas_json = None
    /\ page_index = 0
    /\ rects_by_page = EmptyMap
    /\ gen_call = None

\* a run in which no button of the page body is pressed: the widgets that changed
\* are given; the canvas keeps its drawing only while the same canvas is rendered
Rerun(pdf, pidx) ==
    /\ ui' = RunOutcome(pdf, pidx)
    /\ canvas_json' = IF pdf = pdf_file /\ pidx = page_index /\ ui' = "ok"
                      THEN canvas_json ELSE None
    /\ gen_call' = None

UploadPdf ==
    /\ ui /= "off"
    /\ \E n \in 1 .. MaxPages :
          /\ Some(n) /= pdf_file
          /\ pdf_file' = Some(n)
          /\ Rerun(Some(n), page_index)
    /\ UNCHANGED <<stamp_file, mode, apply_all, page_index, rects_by_page, notSess>>

RemovePdf ==
    /\ ui /= "off"
    /\ pdf_file /= None
    /\ pdf_file' = None
    /\ Rerun(None, page_index)
    /\ UNCHANGED <<stamp_file, mode, apply_all, page_index, rects_by_page, notSess>>

UploadStamp ==
    /\ ui /= "off"
    /\ \E f \in {"image", "undecodable"} :
          /\ Some(f) /= stamp_file
          /\ stamp_file' = Some(f)
    /\ Rerun(pdf_file, page_index)
    /\ UNCHANGED <<pdf_file, mode, apply_all, page_index, rects_by_page, notSess>>

RemoveStamp ==
    /\ ui /= "off"
    /\ stamp_file /= None
    /\ stamp_file' = None
    /\ Rerun(pdf_file, page_index)
    /\ UNCHANGED <<pdf_file, mode, apply_all, page_index, rects_by_page, notSess>>

SetMode ==
    /\ ui /= "off"
    /\ mode' = IF mode = "texto" THEN "stamp" ELSE "texto"
    /\ Rerun(pdf_file, page_index)
    /\ UNCHANGED <<pdf_file, stamp_file, apply_all, page_index, rects_by_page, notSess>>

\* the button is rendered before the page is, and is enabled while page_index > 0
PrevPage ==
    /\ ui \in {"error", "ok"}
    /\ ~(page_index <= 0)
    /\ page_index' = page_index - 1
    /\ Rerun(pdf_file, page_index')
    /\ UNCHANGED <<pdf_file, stamp_file, mode, apply_all, rects_by_page, notSess>>

NextPage ==
    /\ ui \in {"error", "ok"}
    /\ ~(page_index >= PageCount(pdf_file) - 1)
    /\ page_index' = page_index + 1
    /\ Rerun(pdf_file, page_index')
    /\ UNCHANGED <<pdf_file, stamp_file, mode, apply_all, rects_by_page, notSess>>

\* the user draws one more object on the canvas
DrawObject ==
    /\ ui = "ok"
    /\ \E o \in DrawnObjects :
          LET objects == IF canvas_json = None THEN <<>> ELSE canvas_json[1].objects
          IN  /\ Len(objects) < MaxObjects
              /\ canvas_json' = Some([objects |-> Append(objects, o)])
    /\ gen_call' = None
    /\ UNCHANGED <<ui, pdf_file, stamp_file, mode, apply_all, page_index, rects_by_page,
                   notSess>>

\* the user empties the canvas
EraseCanvas ==
    /\ ui = "ok"
    /\ canvas_json /= None
    /\ canvas_json' = Some([objects |-> <<>>])
    /\ gen_call' = None
    /\ UNCHANGED <<ui, pdf_file, stamp_file, mode, apply_all, page_index, rects_by_page,
                   notSess>>

\* "Limpar areas desta pagina"
ClearPage ==
    /\ ui = "ok"
    /\ rects_by_page' = MapPop(rects_by_page, page_index)
    /\ gen_call' = None
    /\ UNCHANGED <<ui, pdf_file, stamp_file, mode, apply_all, canvas_json, page_index,
                   notSess>>

\* "Guardar area deste rectangulo"
SaveRect ==
    /\ ui = "ok"
    /\ LET last_rect_disp == get_last_rect_from_canvas(canvas_json)
       IN  IF last_rect_disp = None
           THEN rects_by_page' = rects_by_page
           ELSE LET rect_pt == rect_disp_to_rect_pt(last_rect_disp, display_scale, ImgW,
                                                    ImgH, QInt(PageWpt), QInt(PageHpt))
                IN  rects_by_page' =
                        MapSet(rects_by_page, page_index,
                               MapSet(MapGet(rects_by_page, page_index, EmptyMap),
                                      mode, rect_pt))
    /\ gen_call' = None
    /\ UNCHANGED <<ui, pdf_file, stamp_file, mode, apply_all, canvas_json, page_index,
                   notSess>>

ToggleApplyAll ==
    /\ ui = "ok"
    /\ apply_all' = ~apply_all
    /\ gen_call' = None
    /\ UNCHANGED <<ui, pdf_file, stamp_file, mode, canvas_json, page_index, rects_by_page,
                   notSess>>

\* "Gerar PDF final": enabled while can_generate
Generate ==
    /\ ui = "ok"
    /\ can_generate
    /\ gen_call' = Some([pdf |-> pdf_file, rects_by_page |-> rects_to_apply,
                         stamp_png_bytes |-> stamp_png_bytes])
    /\ UNCHANGED <<ui, pdf_file, stamp_file, mode, apply_all, canvas_json, page_index,
                   rects_by_page, notSess>>

NextSess ==
    \/ UploadPdf
    \/ RemovePdf
    \/ UploadStamp
    \/ RemoveStamp
    \/ SetMode
    \/ PrevPage
    \/ NextPage
    \/ DrawObject
    \/ EraseCanvas
    \/ ClearPage
    \/ SaveRect
    \/ ToggleApplyAll
    \/ Generate

\* ------------------------------------------------------------------------
\* Specifications
\* ------------------------------------------------------------------------
\* the session
Init == InitSess /\ GeomIdle /\ WrapIdle /\ StampIdle /\ GenIdle
Next == NextSess
Spec == Init /\ [][Next]_vars

\* the session of a user who loads documents, turns pages, draws, saves and
\* clears, and leaves the stamp upload and the generation alone
NextAnnot ==
    \/ UploadPdf
    \/ RemovePdf
    \/ SetMode
    \/ PrevPage
    \/ NextPage
    \/ DrawObject
    \/ EraseCanvas
    \/ ClearPage
    \/ SaveRect
SpecAnnot == Init /\ [][NextAnnot]_vars

\* the geometry transforms on their own
InitGeomOnly == InitGeom /\ WrapIdle /\ StampIdle /\ GenIdle /\ SessIdle
SpecGeom == InitGeomOnly /\ [][NextGeom]_vars

\* that session together with the transforms on their own
InitNorm == Init \/ InitGeomOnly
NextNorm == NextAnnot \/ NextGeom
SpecNorm == InitNorm /\ [][NextNorm]_vars

\* the text layout on its own
InitWrapOnly == InitWrap /\ GeomIdle /\ StampIdle /\ GenIdle /\ SessIdle
SpecWrap == InitWrapOnly /\ [][NextWrap]_vars

\* the stamp sizing on its own
InitStampOnly == InitStamp /\ GeomIdle /\ WrapIdle /\ GenIdle /\ SessIdle
SpecStamp == InitStampOnly /\ [][NextStamp]_vars

\* apply_edits_to_pdf on its own
InitGenOnly == InitGen /\ GeomIdle /\ WrapIdle /\ StampIdle /\ SessIdle
SpecGen == InitGenOnly /\ [][NextGen]_vars

\* ------------------------------------------------------------------------
\* Properties: Geometry Transform
\* ------------------------------------------------------------------------
Normalized(r) == QLeq(r[1], r[3]) /\ QLeq(r[2], r[4])

InsidePage(r, geo) ==
    /\ QLeq(QZero, r[1]) /\ QLeq(r[3], geo.page_w)
    /\ QLeq(QZero, r[2]) /\ QLeq(r[4], geo.page_h)

\* C1 as stated: the round trip point -> pixel -> display -> point returns the
\* rectangle it started from, for any rectangle whatever.
C1_RoundTripAnyRect == g_pc = "done_rt" => g_out = g_rect_pt

\* C1, amended: the round trip point -> pixel -> display -> point returns the
\* rectangle it started from when that rectangle is normalized and lies inside
\* the page; any image size, page size and display scale.
C1_RoundTripInsidePage ==
    (g_pc = "done_rt" /\ Normalized(g_rect_pt) /\ InsidePage(g_rect_pt, g_geo))
        => g_out = g_rect_pt

\* a proper rectangle inside the page went round, under a display scale other
\* than 1 and different horizontal and vertical scale factors
C1_Witness ==
    /\ g_pc = "done_rt"
    /\ Normalized(g_rect_pt) /\ InsidePage(g_rect_pt, g_geo)
    /\ QLt(g_rect_pt[1], g_rect_pt[3]) /\ QLt(g_rect_pt[2], g_rect_pt[4])
    /\ g_geo.display_scale /= QInt(1)
    /\ QDiv(g_geo.page_w, QInt(g_geo.img_w)) /= QDiv(g_geo.page_h, QInt(g_geo.img_h))
    /\ g_rect_px /= g_rect_pt
    /\ g_out = g_rect_pt

\* the drawn corners sorted and taken to full-resolution pixels, before any clamp
FullPixel(rect_disp, scale) ==
    <<QDiv(QMin(rect_disp[1], rect_disp[3]), scale),
      QDiv(QMin(rect_disp[2], rect_disp[4]), scale),
      QDiv(QMax(rect_disp[1], rect_disp[3]), scale),
      QDiv(QMax(rect_disp[2], rect_disp[4]), scale)>>

\* C2: whatever is drawn, the rectangle rect_disp_to_rect_pt returns lies inside
\* the page, and a coordinate whose pixel value is already inside the image is
\* only scaled, not moved.
C2_Clamped ==
    g_pc \in {"done", "done_rt"} =>
        LET px == FullPixel(g_rect_disp, g_geo.display_scale)
            img == <<g_geo.img_w, g_geo.img_h, g_geo.img_w, g_geo.img_h>>
            page == <<g_geo.page_w, g_geo.page_h, g_geo.page_w, g_geo.page_h>>
        IN  \A i \in 1 .. 4 :
               /\ QLeq(QZero, g_out[i]) /\ QLeq(g_out[i], page[i])
               /\ (QLeq(QZero, px[i]) /\ QLeq(px[i], QInt(img[i])))
                     => g_out[i] = QMul(px[i], QDiv(page[i], QInt(img[i])))

\* a rectangle drawn across the right edge of the canvas: its left side is kept,
\* its right side is cut at the page width
C2_Witness ==
    /\ g_pc = "done"
    /\ LET px == FullPixel(g_rect_disp, g_geo.display_scale)
       IN  /\ QLt(QZero, px[1]) /\ QLt(px[1], QInt(g_geo.img_w))
           /\ QLt(QInt(g_geo.img_w), px[3])
           /\ QLt(px[2], QZero)
    /\ g_out[3] = g_geo.page_w
    /\ g_out[2] = QZero
    /\ QLt(QZero, g_out[1])

\* every rectangle of the annotation map is normalized
StoredNormalized ==
    \A p \in DOMAIN rects_by_page :
       \A k \in DOMAIN rects_by_page[p] : Normalized(rects_by_page[p][k])

\* C3: the four corner orders of the same two display corners give the same
\* rectangle, it has x0 <= x1 and y0 <= y1, and every rectangle stored in
\* rects_by_page is normalized.
C3_Normalization ==
    /\ g_pc = "done" =>
          LET r == g_rect_disp
              conv(q) == rect_disp_to_rect_pt(q, g_geo.display_scale, g_geo.img_w,
                                              g_geo.img_h, g_geo.page_w, g_geo.page_h)
          IN  /\ Normalized(g_out)
              /\ conv(<<r[3], r[2], r[1], r[4]>>) = g_out
              /\ conv(<<r[1], r[4], r[3], r[2]>>) = g_out
              /\ conv(<<r[3], r[4], r[1], r[2]>>) = g_out
    /\ StoredNormalized

\* a rectangle drawn from its bottom-right to its top-left corner has been saved
C3_Witness ==
    /\ ui = "ok"
    /\ LET last == get_last_rect_from_canvas(canvas_json)
       IN  /\ last /= None
           /\ QLt(last[3], last[1]) /\ QLt(last[4], last[2])
           /\ page_index \in DOMAIN rects_by_page
           /\ mode \in DOMAIN rects_by_page[page_index]
           /\ rects_by_page[page_index][mode] =
                 rect_disp_to_rect_pt(last, display_scale, ImgW, ImgH,
                                      QInt(PageWpt), QInt(PageHpt))
           /\ QLt(rects_by_page[page_index][mode][1], rects_by_page[page_index][mode][3])

\* ------------------------------------------------------------------------
\* Properties: Text Layout Engine
\* ------------------------------------------------------------------------
NonEmpty(w) == w /= <<>>

RECURSIVE Flatten(_)
Flatten(ss) == IF ss = <<>> THEN <<>> ELSE Head(ss) \o Flatten(Tail(ss))

\* the words of the lines, in order
WordsOfLines(lines) ==
    Flatten([i \in 1 .. Len(lines) |-> SelectSeq(Split(lines[i], SP), NonEmpty)])

\* the words of the paragraphs that are not blank, in order
WordsOfParagraphs(paragraphs) ==
    Flatten([i \in 1 .. Len(paragraphs) |->
                IF strip(paragraphs[i]) = <<>> THEN <<>>
                ELSE SelectSeq(Split(paragraphs[i], SP), NonEmpty)])

\* C4: every line wrap_text produces is no wider than max_width, except a line
\* that is one single word wider than max_width; a word wider than max_width is
\* alone on its line, and the lines hold the words of the text, whole and in
\* order.
C4_WrapWidth ==
    (w_pc = "wrapped" \/ (w_pc = "drawn" /\ strip(w_text) /= <<>>)) =>
        /\ \A i \in 1 .. Len(w_lines) :
              LET line == w_lines[i]
                  words == Split(line, SP)
              IN  /\ \/ textlength(line) <= w_max_width
                     \/ Len(words) = 1 /\ line /= <<>>
                  /\ \A j \in 1 .. Len(words) :
                        textlength(words[j]) > w_max_width => line = words[j]
        /\ WordsOfLines(w_lines) = WordsOfParagraphs(Split(ReplaceCRLF(w_text), LF))

\* a text of two words: the first, wider than max_width, alone on its line, the
\* second on the next line
C4_Witness ==
    /\ w_pc = "wrapped"
    /\ Len(w_lines) = 2
    /\ textlength(w_lines[1]) > w_max_width
    /\ textlength(w_lines[2]) <= w_max_width
    /\ w_lines[2] /= <<>>
    /\ w_text = w_lines[1] \o <<SP>> \o w_lines[2]

\* C5: build_preview_image draws min(wrapped lines, max_lines) lines, with
\* max_lines = max(1, floor((box height - 2 * pad) / line_h)); when the wrapped
\* lines are more, it draws the first max_lines of them, the last with its
\* trailing whitespace removed and " ..." (the ellipsis character) appended; when
\* they are not, it draws them unchanged.
C5_Truncation ==
    (w_pc = "drawn" /\ strip(w_text) /= <<>>) =>
        LET q == (w_box.h - 20) \div (GlyphH + 4)
            max_lines == IF q > 1 THEN q ELSE 1
            n == Len(w_lines)
        IN  /\ Len(w_drawn) = IF n < max_lines THEN n ELSE max_lines
            /\ n > max_lines =>
                  /\ \A i \in 1 .. max_lines - 1 : w_drawn[i] = w_lines[i]
                  /\ w_drawn[max_lines] = rstrip(w_lines[max_lines]) \o <<SP, Ellipsis>>
            /\ n <= max_lines => w_drawn = w_lines

\* a box of exactly k lines and a message wrapped to k + 3 lines: k lines drawn,
\* the last with its trailing whitespace gone and ending with the ellipsis
C5_Witness ==
    /\ w_pc = "drawn"
    /\ strip(w_text) /= <<>>
    /\ Len(w_lines) = TextMaxLines(w_box.h) + 3
    /\ Len(w_drawn) = TextMaxLines(w_box.h)
    /\ w_drawn[Len(w_drawn)][Len(w_drawn[Len(w_drawn)])] = Ellipsis
    /\ rstrip(w_lines[Len(w_drawn)]) /= w_lines[Len(w_drawn)]
    /\ rstrip(w_lines[Len(w_drawn)]) /= <<>>

\* ------------------------------------------------------------------------
\* Properties: the stamp of the preview
\* ------------------------------------------------------------------------
\* C6 as stated: in aspect-preserving mode the resized stamp fits within the
\* rectangle and is pasted inside it, in stretch mode its size is exactly the
\* rectangle's, zero-width and zero-height rectangles included.
C6_StampFitsAnyRect ==
    s_pc = "done" =>
        IF s_in.keep_ratio
        THEN /\ s_out.nw <= s_in.x1 - s_in.x0
             /\ s_out.nh <= s_in.y1 - s_in.y0
             /\ s_in.x0 <= s_out.px /\ s_out.px + s_out.nw <= s_in.x1
             /\ s_in.y0 <= s_out.py /\ s_out.py + s_out.nh <= s_in.y1
        ELSE s_out.nw = s_in.x1 - s_in.x0 /\ s_out.nh = s_in.y1 - s_in.y0

\* C6, amended: the same with the target taken as max(1, x1 - x0) by
\* max(1, y1 - y0) pixels from (x0, y0): a rectangle of zero width or height
\* counts as one pixel wide or high.
C6_StampFitsTarget ==
    s_pc = "done" =>
        LET tw == IF s_in.x1 - s_in.x0 > 1 THEN s_in.x1 - s_in.x0 ELSE 1
            th == IF s_in.y1 - s_in.y0 > 1 THEN s_in.y1 - s_in.y0 ELSE 1
        IN  IF s_in.keep_ratio
            THEN /\ 1 <= s_out.nw /\ s_out.nw <= tw
                 /\ 1 <= s_out.nh /\ s_out.nh <= th
                 /\ s_in.x0 <= s_out.px /\ s_out.px + s_out.nw <= s_in.x0 + tw
                 /\ s_in.y0 <= s_out.py /\ s_out.py + s_out.nh <= s_in.y0 + th
            ELSE /\ s_out.nw = tw /\ s_out.nh = th
                 /\ s_out.px = s_in.x0 /\ s_out.py = s_in.y0

\* a wide stamp in a tall rectangle: it fills the width, is centred in the height
C6_Witness ==
    /\ s_pc = "done"
    /\ s_in.keep_ratio
    /\ s_in.sw > s_in.sh
    /\ s_out.nw = s_in.x1 - s_in.x0
    /\ s_out.nh < s_in.y1 - s_in.y0
    /\ s_out.py > s_in.y0
    /\ s_out.px = s_in.x0

\* ------------------------------------------------------------------------
\* Properties: Document Mutator
\* ------------------------------------------------------------------------
HasEdit(p, op, rect) ==
    \E i \in 1 .. Len(d_doc[p]) : d_doc[p][i] = [op |-> op, rect |-> rect]

EditCount(p, op) == Cardinality({i \in 1 .. Len(d_doc[p]) : d_doc[p][i].op = op})

\* C7: apply_edits_to_pdf never raises on a page index outside the document, and
\* when it is done every page of the document carries the text iff the map has a
\* text rectangle for it and the message is not blank, the stamp iff the map has
\* a stamp rectangle for it and there are stamp bytes; a page the map does not
\* name carries nothing.
C7_OutOfRangeSkipped ==
    /\ d_pc /= "raised"
    /\ d_pc = "done" =>
          LET m == d_args.rects_by_page
          IN  \A p \in 0 .. d_args.page_count - 1 :
                 LET text == p \in DOMAIN m /\ "texto" \in DOMAIN m[p]
                                /\ strip(d_args.message) /= <<>>
                     image == p \in DOMAIN m /\ "stamp" \in DOMAIN m[p]
                                 /\ d_args.stamp_png_bytes \notin {None, Some(<<>>)}
                 IN  /\ EditCount(p, "insert_textbox") = IF text THEN 1 ELSE 0
                     /\ EditCount(p, "insert_image") = IF image THEN 1 ELSE 0
                     /\ text => HasEdit(p, "insert_textbox", m[p]["texto"])
                     /\ image => HasEdit(p, "insert_image", m[p]["stamp"])

\* a map naming a page before the first, a page past the last, and the first
\* page, which got its text and its stamp; the second page, not in the map, got
\* nothing
C7_Witness ==
    /\ d_pc = "done"
    /\ d_args.page_count = 2
    /\ DOMAIN d_args.rects_by_page = {-1, 0, 2}
    /\ \A p \in {-1, 0, 2} : DOMAIN d_args.rects_by_page[p] = Kinds
    /\ Len(d_doc[0]) = 2
    /\ d_doc[1] = <<>>

\* ------------------------------------------------------------------------
\* Properties: the session
\* ------------------------------------------------------------------------
HasStampRect(m) == \E p \in DOMAIN m : "stamp" \in DOMAIN m[p]

\* C8: with a stamp rectangle among the annotations generation applies and no
\* stamp uploaded, the generate button is disabled and apply_edits_to_pdf is not
\* called.
C8_MissingStampBlocks ==
    /\ (ui = "ok" /\ HasStampRect(rects_to_apply) /\ stamp_file = None) => ~can_generate
    /\ gen_call /= None =>
          ~(HasStampRect(gen_call[1].rects_by_page) /\ gen_call[1].stamp_png_bytes = None)

\* the (page, kind) cells of an annotation map that hold a rectangle
Cells(m) == {c \in (DOMAIN m) \X Kinds : c[2] \in DOMAIN m[c[1]]}

\* C9: a save without a selection leaves rects_by_page as it is; a save with a
\* selection sets the cell (current page, current mode) to the converted
\* rectangle and leaves every other cell as it is; a clear removes the current
\* page's entry and nothing else; navigation leaves rects_by_page as it is.
C9_AnnotationFrame ==
    [][ /\ SaveRect =>
              LET last == get_last_rect_from_canvas(canvas_json)
              IN  IF last = None
                  THEN rects_by_page' = rects_by_page
                  ELSE /\ Cells(rects_by_page') =
                             Cells(rects_by_page) \cup {<<page_index, mode>>}
                       /\ rects_by_page'[page_index][mode] =
                             rect_disp_to_rect_pt(last, display_scale, ImgW, ImgH,
                                                  QInt(PageWpt), QInt(PageHpt))
                       /\ \A c \in Cells(rects_by_page) \ {<<page_index, mode>>} :
                             rects_by_page'[c[1]][c[2]] = rects_by_page[c[1]][c[2]]
        /\ ClearPage
              => /\ DOMAIN rects_by_page' = (DOMAIN rects_by_page) \ {page_index}
                 /\ \A p \in DOMAIN rects_by_page' : rects_by_page'[p] = rects_by_page[p]
        /\ (PrevPage \/ NextPage) => rects_by_page' = rects_by_page
      ]_vars

\* two pages annotated, the current one with both kinds, after a save that
\* overwrote nothing else
C9_Witness ==
    /\ ui = "ok"
    /\ Cardinality(DOMAIN rects_by_page) = 2
    /\ DOMAIN rects_by_page[page_index] = Kinds
    /\ rects_by_page[page_index]["texto"] /= rects_by_page[page_index]["stamp"]
    /\ get_last_rect_from_canvas(canvas_json) /= None
    /\ rects_by_page[page_index][mode] =
          rect_disp_to_rect_pt(get_last_rect_from_canvas(canvas_json), display_scale,
                               ImgW, ImgH, QInt(PageWpt), QInt(PageHpt))

\* C10: whenever a document is loaded, page_index is an index of one of its pages.
C10_PageIndexInRange ==
    pdf_file /= None => (0 <= page_index /\ page_index <= PageCount(pdf_file) - 1)

====
